---------------------------- MODULE Spec2Model ----------------------------
(***************************************************************************)
(* Model of the SAARTHI API (src/api/main.py): the shape normalizers that  *)
(* turn the raw seed documents into the canonical code list, value set and *)
(* concept map, the indices derived from them at import time, and the      *)
(* request handlers search_codes, validate_code and bundle_summary.        *)
(*                                                                         *)
(* Python values are modelled as tagged records [t, v]:                    *)
(*   None  -> [t |-> "null", v |-> 0]       bool -> [t |-> "bool", v |-> b]*)
(*   int   -> [t |-> "num",  v |-> n]       str  -> [t |-> "str",  v |-> s]*)
(*   list  -> [t |-> "list", v |-> <<values>>]                             *)
(*   dict  -> [t |-> "dict", v |-> << <<key, value>>, ... >>]  (insertion  *)
(*            order, as Python keeps it)                                   *)
(* A Python string is a sequence of one-character strings, so that strip,  *)
(* lower, substring search and str() are computed character by character.  *)
(***************************************************************************)
EXTENDS Integers, Sequences, FiniteSets, TLC

VARIABLES
    CODES,                      \* main.py:146  list of code entries
    VALUESET,                   \* main.py:147  normalized value set (dict)
    CONCEPTMAP,                 \* main.py:148  normalized concept map (dict)
    _VALUESET_INCLUDES_LOWER,   \* main.py:150  set of lower-cased includes
    _MAPS_BY_TARGET,            \* main.py:153  lower-cased target -> mappings
    lastOp,                     \* the operation that ran last
    lastReq,                    \* its argument
    lastResp,                   \* what it returned or raised
    prevValidate                \* the first validate_code call: its code and
                                \* response, and whether the code was validated
                                \* again after a call of another handler

vars == <<CODES, VALUESET, CONCEPTMAP, _VALUESET_INCLUDES_LOWER,
          _MAPS_BY_TARGET, lastOp, lastReq, lastResp, prevValidate>>

indices == <<CODES, VALUESET, CONCEPTMAP, _VALUESET_INCLUDES_LOWER,
             _MAPS_BY_TARGET>>

-----------------------------------------------------------------------------
(* Python values *)

JNull == [t |-> "null", v |-> 0]
JBool(b) == [t |-> "bool", v |-> b]
JNum(n) == [t |-> "num", v |-> n]
JStr(s) == [t |-> "str", v |-> s]
JList(xs) == [t |-> "list", v |-> xs]
JDict(kvs) == [t |-> "dict", v |-> kvs]

IsStr(x) == x.t = "str"
IsList(x) == x.t = "list"
IsDict(x) == x.t = "dict"

\* bool(x): None, False, 0, "", [] and {} are falsy
Truthy(x) ==
    CASE x.t = "null" -> FALSE
      [] x.t = "bool" -> x.v
      [] x.t = "num"  -> x.v # 0
      [] OTHER        -> Len(x.v) > 0

\* a or b
PyOr(a, b) == IF Truthy(a) THEN a ELSE b

\* key in d
HasKey(d, k) == \E i \in 1..Len(d.v) : d.v[i][1] = k

\* d.get(k, default)
GetOr(d, k, default) ==
    IF HasKey(d, k)
    THEN d.v[CHOOSE i \in 1..Len(d.v) : d.v[i][1] = k][2]
    ELSE default

\* d.get(k)
Get(d, k) == GetOr(d, k, JNull)

\* list(d.values())
Values(d) == [i \in 1..Len(d.v) |-> d.v[i][2]]

\* list(d.keys())
Keys(d) == [i \in 1..Len(d.v) |-> JStr(d.v[i][1])]

\* {**d, k: val}: an existing key keeps its place, a new one goes last
DictSet(d, k, val) ==
    IF HasKey(d, k)
    THEN JDict([i \in 1..Len(d.v) |->
                  IF d.v[i][1] = k THEN <<k, val>> ELSE d.v[i]])
    ELSE JDict(Append(d.v, <<k, val>>))

RECURSIVE DictMergeFrom(_, _, _)
DictMergeFrom(d, kvs, i) ==
    IF i > Len(kvs) THEN d
    ELSE DictMergeFrom(DictSet(d, kvs[i][1], kvs[i][2]), kvs, i + 1)

\* {**a, **b}
DictMerge(a, b) == DictMergeFrom(a, b.v, 1)

-----------------------------------------------------------------------------
(* Python strings *)

UpperChars == <<"A","B","C","D","E","F","G","H","I","J","K","L","M",
                "N","O","P","Q","R","S","T","U","V","W","X","Y","Z">>
LowerChars == <<"a","b","c","d","e","f","g","h","i","j","k","l","m",
                "n","o","p","q","r","s","t","u","v","w","x","y","z">>

Whitespace == {" ", "\t", "\n", "\r"}

LowerChar(c) ==
    IF \E i \in 1..Len(UpperChars) : UpperChars[i] = c
    THEN LowerChars[CHOOSE i \in 1..Len(UpperChars) : UpperChars[i] = c]
    ELSE c

\* s.lower()
Lower(s) == [i \in 1..Len(s) |-> LowerChar(s[i])]

\* s.strip()
Strip(s) ==
    IF \A i \in 1..Len(s) : s[i] \in Whitespace THEN <<>>
    ELSE LET first == CHOOSE i \in 1..Len(s) :
                        /\ s[i] \notin Whitespace
                        /\ \A j \in 1..(i - 1) : s[j] \in Whitespace
             last == CHOOSE i \in 1..Len(s) :
                        /\ s[i] \notin Whitespace
                        /\ \A j \in (i + 1)..Len(s) : s[j] \in Whitespace
         IN SubSeq(s, first, last)

\* needle in hay
Contains(hay, needle) ==
    \E i \in 0..(Len(hay) - Len(needle)) :
        SubSeq(hay, i + 1, i + Len(needle)) = needle

RECURSIVE Digits(_)
Digits(n) ==
    LET d == <<"0","1","2","3","4","5","6","7","8","9">>[(n % 10) + 1]
    IN IF n < 10 THEN <<d>> ELSE Append(Digits(n \div 10), d)

ReprChar(c) ==
    CASE c = "\t" -> <<"\\", "t">>
      [] c = "\n" -> <<"\\", "n">>
      [] c = "\r" -> <<"\\", "r">>
      [] c = "\\" -> <<"\\", "\\">>
      [] OTHER    -> <<c>>

RECURSIVE ReprChars(_, _)
ReprChars(s, i) ==
    IF i > Len(s) THEN <<>> ELSE ReprChar(s[i]) \o ReprChars(s, i + 1)

RECURSIVE Repr(_), ReprItems(_, _), ReprPairs(_, _)
\* repr(x), for strings that hold no quote character
Repr(x) ==
    CASE x.t = "null" -> <<"N","o","n","e">>
      [] x.t = "bool" -> IF x.v THEN <<"T","r","u","e">>
                         ELSE <<"F","a","l","s","e">>
      [] x.t = "num"  -> Digits(x.v)
      [] x.t = "str"  -> <<"'">> \o ReprChars(x.v, 1) \o <<"'">>
      [] x.t = "list" -> <<"[">> \o ReprItems(x.v, 1) \o <<"]">>
      [] x.t = "dict" -> <<"{">> \o ReprPairs(x.v, 1) \o <<"}">>
ReprItems(xs, i) ==
    IF i > Len(xs) THEN <<>>
    ELSE Repr(xs[i]) \o (IF i < Len(xs) THEN <<",", " ">> ELSE <<>>)
         \o ReprItems(xs, i + 1)
ReprPairs(kvs, i) ==
    IF i > Len(kvs) THEN <<>>
    ELSE Repr(JStr(kvs[i][1])) \o <<":", " ">> \o Repr(kvs[i][2])
         \o (IF i < Len(kvs) THEN <<",", " ">> ELSE <<>>)
         \o ReprPairs(kvs, i + 1)

\* str(x)
Str(x) == IF IsStr(x) THEN x.v ELSE Repr(x)

-----------------------------------------------------------------------------
(* String literals of the source, as character sequences *)

K_codes == <<"c","o","d","e","s">>
K_data == <<"d","a","t","a">>
K_items == <<"i","t","e","m","s">>
K_code == <<"c","o","d","e">>
K_id == <<"i","d">>
K_Code == <<"C","o","d","e">>
K_ID == <<"I","D">>
K_display == <<"d","i","s","p","l","a","y">>
K_term == <<"t","e","r","m">>
K_name == <<"n","a","m","e">>
K_description == <<"d","e","s","c","r","i","p","t","i","o","n">>
K_synonyms == <<"s","y","n","o","n","y","m","s">>
K_Synonyms == <<"S","y","n","o","n","y","m","s">>
K_system == <<"s","y","s","t","e","m">>
K_System == <<"S","y","s","t","e","m">>
K_includes == <<"i","n","c","l","u","d","e","s">>
K_mappings == <<"m","a","p","p","i","n","g","s">>
K_sourceCode == <<"s","o","u","r","c","e","C","o","d","e">>
K_targetCode == <<"t","a","r","g","e","t","C","o","d","e">>
K_relation == <<"r","e","l","a","t","i","o","n">>
K_resourceType == <<"r","e","s","o","u","r","c","e","T","y","p","e">>
K_entry == <<"e","n","t","r","y">>
K_resource == <<"r","e","s","o","u","r","c","e">>

DEFAULT_SYSTEM == <<"u","r","n",":","i","c","d",":","i","c","d","1","1",":","t","m">>
EQUIVALENT == <<"e","q","u","i","v","a","l","e","n","t">>
S_ValueSet == <<"V","a","l","u","e","S","e","t">>
S_ConceptMap == <<"C","o","n","c","e","p","t","M","a","p">>
S_Bundle == <<"B","u","n","d","l","e">>
S_Unknown == <<"U","n","k","n","o","w","n">>
S_Patient == <<"P","a","t","i","e","n","t">>
S_Encounter == <<"E","n","c","o","u","n","t","e","r">>
S_Condition == <<"C","o","n","d","i","t","i","o","n">>
S_Procedure == <<"P","r","o","c","e","d","u","r","e">>
S_Observation == <<"O","b","s","e","r","v","a","t","i","o","n">>

-----------------------------------------------------------------------------
(* Shape normalizers.  A call either returns a value or raises:            *)
(* [err |-> "none", out |-> value] or [err |-> <exception>, out |-> <<>>]. *)

Return(x) == [err |-> "none", out |-> x]
Raise(e) == [err |-> e, out |-> <<>>]

\* CodeItems that does not know the "data" wrapper
CodeItemsNoData(raw) ==
    LET items == IF IsDict(raw)
                 THEN IF HasKey(raw, K_codes) THEN Get(raw, K_codes)
                      ELSE IF HasKey(raw, K_items) THEN Get(raw, K_items)
                      ELSE JList(Values(raw))
                 ELSE raw
    IN IF IsList(items) THEN items.v ELSE <<items>>

\* main.py:34-48: unwrap the container, wrap a non-list into a list
CodeItems(raw) ==
    LET items == IF IsDict(raw)
                 THEN IF HasKey(raw, K_codes) THEN Get(raw, K_codes)
                      ELSE IF HasKey(raw, K_data) THEN Get(raw, K_data)
                      ELSE IF HasKey(raw, K_items) THEN Get(raw, K_items)
                      ELSE JList(Values(raw))
                 ELSE raw
    IN IF IsList(items) THEN items.v ELSE <<items>>

\* main.py:61-63: synonyms, a single string wrapped into a list
CodeSyns(x) ==
    LET syns == PyOr(PyOr(Get(x, K_synonyms), Get(x, K_Synonyms)), JList(<<>>))
    IN IF IsStr(syns) THEN JList(<<syns>>) ELSE syns

\* main.py:69: "for s in syns" raises TypeError on a number or a bool
Iterable(x) == x.t \in {"list", "dict", "str"}

\* the elements "for s in x" visits: a list's items, a dict's keys
IterItems(x) ==
    CASE x.t = "list" -> x.v
      [] x.t = "dict" -> Keys(x)
      [] x.t = "str"  -> [i \in 1..Len(x.v) |-> JStr(<<x.v[i]>>)]
      [] OTHER        -> <<>>

\* main.py:53-72: the code entry of a dict element
CodeEntryOfDict(x) ==
    LET code == PyOr(PyOr(PyOr(PyOr(Get(x, K_code), Get(x, K_id)),
                               Get(x, K_Code)), Get(x, K_ID)), JStr(<<>>))
        display == PyOr(PyOr(PyOr(PyOr(Get(x, K_display), Get(x, K_term)),
                                  Get(x, K_name)), Get(x, K_description)),
                        JStr(Str(code)))
        syns == IterItems(CodeSyns(x))
        system == PyOr(PyOr(Get(x, K_system), Get(x, K_System)),
                       JStr(DEFAULT_SYSTEM))
    IN [code |-> Str(code),
        display |-> Str(display),
        synonyms |-> [i \in 1..Len(syns) |-> Str(syns[i])],
        system |-> Str(system)]

\* main.py:73-81: the code entry of a bare string element
CodeEntryOfStr(x) ==
    [code |-> x.v, display |-> x.v, synonyms |-> <<>>,
     system |-> DEFAULT_SYSTEM]

\* main.py:24-82
_norm_codes(raw) ==
    LET items == CodeItems(raw)
        kept == SelectSeq(items, LAMBDA x : IsDict(x) \/ IsStr(x))
    IN IF \E i \in 1..Len(items) :
             IsDict(items[i]) /\ ~Iterable(CodeSyns(items[i]))
       THEN Raise("TypeError")
       ELSE Return([i \in 1..Len(kept) |->
                      IF IsDict(kept[i]) THEN CodeEntryOfDict(kept[i])
                      ELSE CodeEntryOfStr(kept[i])])

\* isinstance(x, list) and all(isinstance(i, str) for i in x)
IsStrList(x) == IsList(x) /\ \A i \in 1..Len(x.v) : IsStr(x.v[i])

\* main.py:89-104: the list the includes are taken from
ValueSetIncludes(raw) ==
    IF IsDict(raw)
    THEN IF IsList(Get(raw, K_includes)) THEN Get(raw, K_includes).v
         ELSE IF IsList(Get(raw, K_codes)) THEN Get(raw, K_codes).v
         ELSE IF IsList(Get(raw, K_data)) THEN Get(raw, K_data).v
         ELSE IF \E i \in 1..Len(raw.v) : IsStrList(raw.v[i][2])
              THEN raw.v[CHOOSE i \in 1..Len(raw.v) :
                           /\ IsStrList(raw.v[i][2])
                           /\ \A j \in 1..(i - 1) : ~IsStrList(raw.v[j][2])][2].v
              ELSE <<>>
    ELSE IF IsStrList(raw) THEN raw.v
    ELSE <<>>

\* main.py:84-107
_norm_valueset(raw) ==
    LET src == ValueSetIncludes(raw)
        includes == JList([i \in 1..Len(src) |-> JStr(Str(src[i]))])
        base == JDict(<< <<K_resourceType, JStr(S_ValueSet)>> >>)
    IN Return(DictSet(DictMerge(base, IF IsDict(raw) THEN raw ELSE JDict(<<>>)),
                      K_includes, includes))

\* main.py:114-123: the list the mappings are taken from
ConceptMapMappings(raw) ==
    LET m == IF IsDict(raw) THEN Get(raw, K_mappings) ELSE JNull
        mappings == IF IsDict(raw) /\ IsList(m) THEN m.v ELSE <<>>
    IN IF Len(mappings) = 0 /\ IsList(raw) THEN raw.v ELSE mappings

\* main.py:129-135
ConceptMapEntry(m) ==
    JDict(<< <<K_sourceCode, JStr(Str(GetOr(m, K_sourceCode, JStr(<<>>))))>>,
             <<K_targetCode, JStr(Str(GetOr(m, K_targetCode, JStr(<<>>))))>>,
             <<K_relation, JStr(Str(GetOr(m, K_relation, JStr(EQUIVALENT))))>> >>)

\* main.py:109-139
_norm_conceptmap(raw) ==
    LET kept == SelectSeq(ConceptMapMappings(raw), IsDict)
        norm_maps == JList([i \in 1..Len(kept) |-> ConceptMapEntry(kept[i])])
        base == JDict(<< <<K_resourceType, JStr(S_ConceptMap)>> >>)
    IN IF IsDict(raw)
       THEN Return(DictSet(DictMerge(base, raw), K_mappings, norm_maps))
       ELSE Return(DictSet(base, K_mappings, norm_maps))

\* main.py:150
BuildValuesetIncludesLower(valueset) ==
    LET inc == GetOr(valueset, K_includes, JList(<<>>)).v
    IN {Lower(inc[i].v) : i \in 1..Len(inc)}

\* main.py:155: tgt = str(m.get("targetCode", "")).lower()
TargetOf(m) == Lower(Str(GetOr(m, K_targetCode, JStr(<<>>))))

\* main.py:153-158
BuildMapsByTarget(conceptmap) ==
    LET ms == GetOr(conceptmap, K_mappings, JList(<<>>)).v
        tgts == {TargetOf(ms[i]) : i \in 1..Len(ms)} \ {<<>>}
    IN [tgt \in tgts |-> SelectSeq(ms, LAMBDA m : TargetOf(m) = tgt)]

-----------------------------------------------------------------------------
(* Request handlers *)

\* raise HTTPException(status_code=..., detail=...)
RaiseHTTP(status_code, detail) ==
    [err |-> "HTTPException",
     out |-> [status_code |-> status_code, detail |-> detail]]

\* main.py:182: out[:200]
SEARCH_LIMIT == 200

\* main.py:253-255: conditions[:50]
SUMMARY_LIMIT == 50

\* xs[:n]
Take(xs, n) == SubSeq(xs, 1, IF Len(xs) < n THEN Len(xs) ELSE n)

\* main.py:177-180: does the entry match the lower-cased term
SearchHit(c, term) ==
    \/ Contains(Lower(c.code), term)
    \/ Contains(Lower(c.display), term)
    \/ \E i \in 1..Len(c.synonyms) : Contains(Lower(c.synonyms[i]), term)

\* Needle without the strip
NeedleNoStrip(q) == Lower(q)

\* main.py:172: term = (q or "").strip().lower()
Needle(q) == Lower(Strip(q))

\* SearchCodes without the cut to SEARCH_LIMIT entries
SearchCodesNoLimit(codes, q) ==
    LET term == Lower(Strip(q))
    IN IF term = <<>> THEN Return(<<>>)
       ELSE Return(SelectSeq(codes, LAMBDA c : SearchHit(c, term)))

\* main.py:170-182
SearchCodes(codes, q) ==
    LET term == Needle(q)
    IN IF term = <<>> THEN Return(<<>>)
       ELSE Return(Take(SelectSeq(codes, LAMBDA c : SearchHit(c, term)),
                        SEARCH_LIMIT))

\* FindCode taking the last match instead of the first
FindCodeLast(codes, needle) ==
    LET hits == SelectSeq(codes, LAMBDA c : Lower(c.code) = needle)
    IN IF hits = <<>> THEN <<>> ELSE <<hits[Len(hits)]>>

\* main.py:190: next((c for c in CODES if c["code"].lower() == needle), None)
FindCode(codes, needle) ==
    LET hits == SelectSeq(codes, LAMBDA c : Lower(c.code) = needle)
    IN IF hits = <<>> THEN <<>> ELSE <<Head(hits)>>

\* main.py:184-202
ValidateCode(codes, includes_lower, maps_by_target, code) ==
    LET needle == Needle(code)
        found == FindCode(codes, needle)
    IN IF needle = <<>> THEN RaiseHTTP(400, "Missing code")
       ELSE Return(
          [code |-> code,
           exists |-> found # <<>>,
           inValueSet |-> needle \in includes_lower,
           display |-> IF found = <<>> THEN JNull ELSE JStr(found[1].display),
           system |-> IF found = <<>> THEN JNull ELSE JStr(found[1].system),
           mappings |-> IF needle \in DOMAIN maps_by_target
                        THEN maps_by_target[needle] ELSE <<>>])

\* a request body that json.loads rejects
Unparseable == [t |-> "unparseable", v |-> 0]

\* x.get: only a dict has the method
HasGet(x) == IsDict(x)

\* hash(x): a list or a dict cannot be a dict key
Hashable(x) == x.t \notin {"list", "dict"}

\* main.py:225-230: the accumulators before the walk
SummaryStart ==
    [err |-> "none", counts |-> << >>, patient_ref |-> JNull,
     encounter_ref |-> JNull, conditions |-> <<>>, procedures |-> <<>>,
     observations |-> <<>>]

\* counts[rtype] = counts.get(rtype, 0) + 1
CountUp(counts, rtype) ==
    IF \E i \in 1..Len(counts) : counts[i][1] = rtype
    THEN [i \in 1..Len(counts) |->
            IF counts[i][1] = rtype THEN <<rtype, counts[i][2] + 1>>
            ELSE counts[i]]
    ELSE Append(counts, <<rtype, 1>>)

\* SummaryStep that keeps the first reference of each type
SummaryStepFirstWins(acc, e) ==
    LET e1 == PyOr(e, JDict(<<>>))
        res == PyOr(Get(e1, K_resource), JDict(<<>>))
        rtype == GetOr(res, K_resourceType, JStr(S_Unknown))
        rid == Get(res, K_id)
    IN IF ~HasGet(e1) THEN [acc EXCEPT !.err = "AttributeError"]
       ELSE IF ~HasGet(res) THEN [acc EXCEPT !.err = "AttributeError"]
       ELSE IF ~Hashable(rtype) THEN [acc EXCEPT !.err = "TypeError"]
       ELSE [acc EXCEPT
               !.counts = CountUp(@, rtype),
               !.patient_ref =
                   IF rtype = JStr(S_Patient) /\ Truthy(rid) /\ @ = JNull
                   THEN JStr(S_Patient \o <<"/">> \o Str(rid)) ELSE @,
               !.encounter_ref =
                   IF rtype = JStr(S_Encounter) /\ Truthy(rid) /\ @ = JNull
                   THEN JStr(S_Encounter \o <<"/">> \o Str(rid)) ELSE @,
               !.conditions =
                   IF rtype = JStr(S_Condition) THEN Append(@, res) ELSE @,
               !.procedures =
                   IF rtype = JStr(S_Procedure) THEN Append(@, res) ELSE @,
               !.observations =
                   IF rtype = JStr(S_Observation) THEN Append(@, res) ELSE @]

\* main.py:233-247: one pass of the loop body over entry e
SummaryStep(acc, e) ==
    LET e1 == PyOr(e, JDict(<<>>))
        res == PyOr(Get(e1, K_resource), JDict(<<>>))
        rtype == GetOr(res, K_resourceType, JStr(S_Unknown))
        rid == Get(res, K_id)
    IN IF ~HasGet(e1) THEN [acc EXCEPT !.err = "AttributeError"]
       ELSE IF ~HasGet(res) THEN [acc EXCEPT !.err = "AttributeError"]
       ELSE IF ~Hashable(rtype) THEN [acc EXCEPT !.err = "TypeError"]
       ELSE [acc EXCEPT
               !.counts = CountUp(@, rtype),
               !.patient_ref =
                   IF rtype = JStr(S_Patient) /\ Truthy(rid)
                   THEN JStr(S_Patient \o <<"/">> \o Str(rid)) ELSE @,
               !.encounter_ref =
                   IF rtype = JStr(S_Encounter) /\ Truthy(rid)
                   THEN JStr(S_Encounter \o <<"/">> \o Str(rid)) ELSE @,
               !.conditions =
                   IF rtype = JStr(S_Condition) THEN Append(@, res) ELSE @,
               !.procedures =
                   IF rtype = JStr(S_Procedure) THEN Append(@, res) ELSE @,
               !.observations =
                   IF rtype = JStr(S_Observation) THEN Append(@, res) ELSE @]

RECURSIVE SummaryWalk(_, _, _)
\* main.py:232: for e in entries, stopping at the first exception
SummaryWalk(acc, entries, i) ==
    IF i > Len(entries) \/ acc.err # "none" THEN acc
    ELSE SummaryWalk(SummaryStep(acc, entries[i]), entries, i + 1)

\* main.py:214-256
BundleSummary(bundle) ==
    IF bundle = Unparseable THEN RaiseHTTP(400, "Invalid JSON")
    ELSE IF ~HasGet(bundle) THEN Raise("AttributeError")
    ELSE IF Get(bundle, K_resourceType) # JStr(S_Bundle)
         THEN RaiseHTTP(400, "resourceType must be 'Bundle'")
    ELSE LET entries == PyOr(GetOr(bundle, K_entry, JList(<<>>)), JList(<<>>))
             acc == SummaryWalk(SummaryStart, IterItems(entries), 1)
         IN IF ~Iterable(entries) THEN Raise("TypeError")
            ELSE IF acc.err # "none" THEN Raise(acc.err)
            ELSE Return(
               [counts |-> acc.counts,
                patientRef |-> acc.patient_ref,
                encounterRef |-> acc.encounter_ref,
                conditions |-> Take(acc.conditions, SUMMARY_LIMIT),
                procedures |-> Take(acc.procedures, SUMMARY_LIMIT),
                observations |-> Take(acc.observations, SUMMARY_LIMIT)])

-----------------------------------------------------------------------------
(* The seed documents the process is started with *)

\* wrapped code records with key aliases, duplicates that differ in case
Seed1 ==
    [codes |-> JDict(<< <<K_codes, JList(<<JDict(<< <<K_code,
      JStr(<<"A">>)>>, <<K_display, JStr(<<"x">>)>>, <<K_synonyms,
      JStr(<<"B">>)>> >>), JDict(<< <<K_id, JStr(<<"a">>)>>, <<K_term,
      JStr(<<"s","e","c","o","n","d">>)>> >>), JDict(<< <<K_Code,
      JStr(<<"a","B">>)>>, <<K_Synonyms, JList(<<JStr(<<"b"," ","a">>),
      JStr(<<"z">>)>>)>>, <<K_System, JStr(<<"S">>)>> >>),
      JStr(<<" ","a">>), JNum(7)>>)>> >>), valueset |-> JDict(<<
      <<K_includes, JList(<<JStr(<<"A">>), JStr(<<"B"," ">>),
      JNum(7)>>)>> >>), conceptmap |-> JDict(<< <<K_mappings,
      JList(<<JDict(<< <<K_sourceCode, JStr(<<"s","1">>)>>,
      <<K_targetCode, JStr(<<"A">>)>> >>), JDict(<< <<K_sourceCode,
      JStr(<<"s","2">>)>> >>), JStr(<<"j","u","n","k">>), JDict(<<
      <<K_sourceCode, JStr(<<"s","3">>)>>, <<K_targetCode,
      JStr(<<"a">>)>>, <<K_relation,
      JStr(<<"n","a","r","r","o","w","e","r">>)>> >>), JDict(<<
      <<K_targetCode, JStr(<<"B">>)>> >>)>>)>> >>)]

\* documents of no recognized shape
Seed3 ==
    [codes |-> JNum(5), valueset |-> JNull, conceptmap |-> JStr(<<"s">>)]

\* a map of records, a value set found by scanning, a bare mapping list
Seed4 ==
    [codes |-> JDict(<< <<<<"k","1">>, JDict(<< <<K_Code, JStr(<<"B">>)>>,
      <<K_name, JStr(<<"a"," ","B">>)>> >>)>>, <<<<"k","2">>, JDict(<<
      <<K_ID, JStr(<<"a"," ">>)>>, <<K_description, JStr(<<" ">>)>>
      >>)>> >>), valueset |-> JDict(<< <<<<"x">>, JNum(1)>>, <<<<"y">>,
      JList(<<JStr(<<"a">>), JStr(<<"B">>)>>)>> >>), conceptmap |->
      JList(<<JDict(<< <<K_targetCode, JStr(<<"B">>)>> >>), JNum(3),
      JDict(<< <<K_targetCode, JStr(<<" ","a">>)>> >>)>>)]

\* how many strings the bare string list of Seed2 holds
BigCodes == 201

\* a bare list of more strings than one search returns, bare lists elsewhere
Seed2 ==
    [codes |-> JList([i \in 1..BigCodes |->
                        JStr(<< <<"a">>, <<"A","b">>, <<"B","a">> >>[(i % 3) + 1])]),
     valueset |-> JList(<<JStr(<<"a">>), JStr(<<"a","B">>)>>),
     conceptmap |-> JList(<<JDict(<< <<K_sourceCode, JStr(<<"q">>)>>,
                                     <<K_targetCode, JStr(<<"A","B">>)>> >>)>>)]

\* the seeds of Spec, and those of SpecSearch, which adds the long code list
SmallSeeds == {Seed1, Seed3, Seed4}
Seeds == SmallSeeds \cup {Seed2}

-----------------------------------------------------------------------------
(* The requests *)

\* the characters and the longest length of a query string
QChars == {"a", "B", " "}
MaxQueryLen == 2

RECURSIVE StringsOfLen(_, _)
StringsOfLen(chars, n) ==
    IF n = 0 THEN {<<>>}
    ELSE {Append(s, c) : s \in StringsOfLen(chars, n - 1), c \in chars}

Queries == UNION {StringsOfLen(QChars, n) : n \in 0..MaxQueryLen}

\* the search terms of SpecSearch: one character longer
SearchTerms == Queries \cup StringsOfLen(QChars, MaxQueryLen + 1)

\* keys of a FHIR resource that main.py does not read
K_coding == <<"c","o","d","i","n","g">>
K_text == <<"t","e","x","t">>

\* the entries of a bundle
E_null ==
    JNull

E_empty ==
    JDict(<<  >>)

E_patient1 ==
    JDict(<< <<K_resource, JDict(<< <<K_resourceType, JStr(S_Patient)>>,
      <<K_id, JStr(<<"p","1">>)>> >>)>> >>)

E_patient2 ==
    JDict(<< <<K_resource, JDict(<< <<K_resourceType, JStr(S_Patient)>>,
      <<K_id, JStr(<<"p","2">>)>> >>)>> >>)

E_patient_noid ==
    JDict(<< <<K_resource, JDict(<< <<K_resourceType, JStr(S_Patient)>>
      >>)>> >>)

E_patient_emptyid ==
    JDict(<< <<K_resource, JDict(<< <<K_resourceType, JStr(S_Patient)>>,
      <<K_id, JStr(<<>>)>> >>)>> >>)

E_patient_lower ==
    JDict(<< <<K_resource, JDict(<< <<K_resourceType,
      JStr(<<"p","a","t","i","e","n","t">>)>>, <<K_id, JStr(<<"p","3">>)>>
      >>)>> >>)

E_encounter1 ==
    JDict(<< <<K_resource, JDict(<< <<K_resourceType, JStr(S_Encounter)>>,
      <<K_id, JStr(<<"e","1">>)>> >>)>> >>)

E_encounter7 ==
    JDict(<< <<K_resource, JDict(<< <<K_resourceType, JStr(S_Encounter)>>,
      <<K_id, JNum(7)>> >>)>> >>)

E_condition2 ==
    JDict(<< <<K_resource, JDict(<< <<K_resourceType, JStr(S_Condition)>>,
      <<K_id, JStr(<<"c","1">>)>>, <<K_code, JDict(<< <<K_coding,
      JList(<<JDict(<< <<K_code, JStr(<<"A">>)>>, <<K_display,
      JStr(<<"x">>)>>, <<K_system, JStr(<<"S">>)>> >>), JDict(<< <<K_code,
      JStr(<<"B">>)>>, <<K_display, JStr(<<"z">>)>>, <<K_system,
      JStr(<<"S">>)>> >>)>>)>>, <<K_text, JStr(<<"t">>)>> >>)>> >>)>> >>)

E_condition0 ==
    JDict(<< <<K_resource, JDict(<< <<K_resourceType, JStr(S_Condition)>>
      >>)>> >>)

E_procedure1 ==
    JDict(<< <<K_resource, JDict(<< <<K_resourceType, JStr(S_Procedure)>>,
      <<K_code, JDict(<< <<K_coding, JList(<<JDict(<< <<K_code,
      JStr(<<"B">>)>>, <<K_display, JStr(<<"z">>)>>, <<K_system,
      JStr(<<"S">>)>> >>)>>)>> >>)>> >>)>> >>)

E_observation ==
    JDict(<< <<K_resource, JDict(<< <<K_resourceType,
      JStr(S_Observation)>>, <<K_code, JDict(<< <<K_text, JStr(<<"t">>)>>
      >>)>>, <<<<"v","a","l","u","e","S","t","r","i","n","g">>,
      JStr(<<"v">>)>> >>)>> >>)

E_untyped ==
    JDict(<< <<K_resource, JDict(<< <<K_id, JStr(<<"u","1">>)>> >>)>> >>)

E_string ==
    JStr(<<"x">>)

EntryKinds ==
    <<E_null, E_empty, E_patient1, E_patient2, E_patient_noid,
      E_patient_emptyid, E_patient_lower, E_encounter1, E_encounter7,
      E_condition2, E_condition0, E_procedure1, E_observation, E_untyped,
      E_string>>

\* the longest entry list of a bundle
MaxEntries == 3

SeqsOfLen(S, n) == [1..n -> S]

SeqsUpTo(S, n) == UNION {SeqsOfLen(S, k) : k \in 0..n}

BundleOf(rtype, entries) ==
    JDict(<< <<K_resourceType, rtype>>, <<K_entry, entries>> >>)

\* request bodies that are no bundle of entries
OddBundles ==
    {Unparseable, JNull, JNum(1), JStr(S_Bundle), JList(<<>>),
     JList(<<JDict(<< <<K_resourceType, JStr(S_Bundle)>> >>)>>),
     JDict(<<>>),
     JDict(<< <<K_entry, JList(<<E_patient1>>)>> >>),
     JDict(<< <<K_resourceType, JStr(S_Bundle)>> >>),
     BundleOf(JNull, JList(<<E_patient1>>)),
     BundleOf(JStr(<<"b","u","n","d","l","e">>), JList(<<E_patient1>>)),
     BundleOf(JStr(S_Bundle \o <<" ">>), JList(<<E_patient1>>)),
     BundleOf(JList(<<JStr(S_Bundle)>>), JList(<<E_patient1>>)),
     BundleOf(JStr(S_Patient), JList(<<>>)),
     BundleOf(JStr(S_Bundle), JNull),
     BundleOf(JStr(S_Bundle), JNum(5)),
     BundleOf(JStr(S_Bundle), E_patient1)}

\* the entry lists, each entry named by its place in EntryKinds
EntryChoices == SeqsUpTo(1..Len(EntryKinds), MaxEntries)

\* the bundle of the entries chosen
BundleOfChoices(ks) ==
    BundleOf(JStr(S_Bundle), JList([i \in 1..Len(ks) |-> EntryKinds[ks[i]]]))

\* the terms searched between validations
ProbeTerms == {<<>>, <<"a">>, <<" ", "B">>, <<"z">>}

\* the bundles sent between searches and validations
ProbeBundles ==
    {Unparseable, JList(<<>>),
     BundleOf(JStr(S_Patient), JList(<<>>)),
     BundleOf(JStr(S_Bundle), JList(<<E_patient1, E_condition2>>))}

-----------------------------------------------------------------------------
(* The service: the state after import, and one action per handler *)

None == [err |-> "none", out |-> <<>>]
NoValidate == [called |-> FALSE, code |-> <<>>, resp |-> None, again |-> FALSE]

Loaded(seed) ==
    /\ CODES = _norm_codes(seed.codes).out
    /\ VALUESET = _norm_valueset(seed.valueset).out
    /\ CONCEPTMAP = _norm_conceptmap(seed.conceptmap).out
    /\ _VALUESET_INCLUDES_LOWER = BuildValuesetIncludesLower(VALUESET)
    /\ _MAPS_BY_TARGET = BuildMapsByTarget(CONCEPTMAP)

\* main.py:142-158: the import fails when a normalizer raises
Started(seeds) ==
    /\ \E seed \in seeds :
          /\ _norm_codes(seed.codes).err = "none"
          /\ Loaded(seed)
    /\ lastOp = "import"
    /\ lastReq = <<>>
    /\ lastResp = None
    /\ prevValidate = NoValidate

Init == Started(SmallSeeds)

\* a handler that consumes the code list it reads
HandlerFramePops ==
    /\ CODES' = IF CODES = <<>> THEN CODES ELSE Tail(CODES)
    /\ UNCHANGED <<VALUESET, CONCEPTMAP, _VALUESET_INCLUDES_LOWER,
                   _MAPS_BY_TARGET>>

\* no handler assigns to a module global or changes one in place
HandlerFrame == UNCHANGED indices

search_codes(q) ==
    /\ lastOp' = "search_codes"
    /\ lastReq' = q
    /\ lastResp' = SearchCodes(CODES, q)
    /\ HandlerFrame
    /\ UNCHANGED prevValidate

validate_code(code) ==
    LET resp == ValidateCode(CODES, _VALUESET_INCLUDES_LOWER,
                             _MAPS_BY_TARGET, code)
    IN /\ lastOp' = "validate_code"
       /\ lastReq' = code
       /\ lastResp' = resp
       /\ prevValidate' =
             IF ~prevValidate.called
             THEN [called |-> TRUE, code |-> code, resp |-> resp,
                   again |-> FALSE]
             ELSE IF prevValidate.code = code /\ lastOp # "validate_code"
             THEN [prevValidate EXCEPT !.again = TRUE]
             ELSE prevValidate
       /\ HandlerFrame

bundle_summary(body) ==
    /\ lastOp' = "bundle_summary"
    /\ lastReq' = body
    /\ lastResp' = BundleSummary(body)
    /\ HandlerFrame
    /\ UNCHANGED prevValidate

Next ==
    \/ \E q \in ProbeTerms : search_codes(q)
    \/ \E code \in Queries : validate_code(code)
    \/ \E body \in ProbeBundles : bundle_summary(body)

Spec == Init /\ [][Next]_vars

(* One bundle_summary call on a started service, over all the bundles *)

NextBundle ==
    /\ lastOp = "import"
    /\ \/ \E body \in OddBundles : bundle_summary(body)
       \/ \E ks \in EntryChoices : bundle_summary(BundleOfChoices(ks))

InitBundle == Started({Seed3})

SpecBundle == InitBundle /\ [][NextBundle]_vars

(* One search_codes call on a started service, over all the seeds *)

InitSearch == Started(Seeds)

NextSearch ==
    /\ lastOp = "import"
    /\ \E q \in SearchTerms : search_codes(q)

SpecSearch == InitSearch /\ [][NextSearch]_vars

-----------------------------------------------------------------------------
(* The normalizers applied to raw documents: a list of elements, put into  *)
(* one of the container shapes                                             *)

\* the elements of a raw document
I_str ==
    JStr(<<"a">>)

I_str_empty ==
    JStr(<<>>)

I_record ==
    JDict(<< <<K_code, JStr(<<"A">>)>>, <<K_display, JStr(<<"x">>)>> >>)

I_record_id ==
    JDict(<< <<K_id, JNum(7)>>, <<K_term, JStr(<<"t">>)>> >>)

I_record_nocode ==
    JDict(<< <<K_display, JStr(<<"x">>)>> >>)

I_record_syn_str ==
    JDict(<< <<K_Code, JStr(<<"B">>)>>, <<K_synonyms, JStr(<<"s">>)>> >>)

I_record_syn_num ==
    JDict(<< <<K_code, JStr(<<"A">>)>>, <<K_synonyms, JNum(5)>> >>)

I_record_syn_list ==
    JDict(<< <<K_ID, JStr(<<"b">>)>>, <<K_Synonyms, JList(<<JStr(<<"t">>),
      JNum(3)>>)>>, <<K_System, JStr(<<"S">>)>> >>)

I_record_code_list ==
    JDict(<< <<K_code, JList(<<JStr(<<"a">>)>>)>> >>)

I_mapping ==
    JDict(<< <<K_sourceCode, JStr(<<"s">>)>>, <<K_targetCode,
      JStr(<<"A">>)>> >>)

I_num ==
    JNum(5)

I_null ==
    JNull

I_list ==
    JList(<<JStr(<<"a">>)>>)

ItemKinds ==
    {I_str, I_str_empty, I_record, I_record_id, I_record_nocode,
     I_record_syn_str, I_record_syn_num, I_record_syn_list,
     I_record_code_list, I_mapping, I_num, I_null, I_list}

\* the longest element list of a raw document
MaxItems == 2

ItemLists == SeqsUpTo(ItemKinds, MaxItems)

\* the container shapes that hold the same elements
ContainerShapes == {"list", "codes", "data", "items", "map"}

Shapes == ContainerShapes \cup {"records", "includes", "mappings", "single"}

\* the document that holds the elements L in the given shape
Wrap(shape, L) ==
    CASE shape = "list"     -> JList(L)
      [] shape = "codes"    -> JDict(<< <<K_codes, JList(L)>> >>)
      [] shape = "data"     -> JDict(<< <<K_data, JList(L)>> >>)
      [] shape = "items"    -> JDict(<< <<K_items, JList(L)>> >>)
      [] shape = "includes" -> JDict(<< <<K_includes, JList(L)>> >>)
      [] shape = "mappings" -> JDict(<< <<K_mappings, JList(L)>> >>)
      [] shape = "map"      ->
            JDict([i \in 1..Len(L) |-> <<(<<"k">> \o Digits(i)), L[i]>>])
      [] shape = "records"  ->
            JList([i \in 1..Len(L) |->
                     JDict(<< <<K_code, L[i]>>, <<K_display, L[i]>> >>)])
      [] shape = "single"   -> IF L = <<>> THEN JNull ELSE L[1]

\* before the import: no global is set yet
InitNorm ==
    /\ CODES = <<>>
    /\ VALUESET = JNull
    /\ CONCEPTMAP = JNull
    /\ _VALUESET_INCLUDES_LOWER = {}
    /\ _MAPS_BY_TARGET = << >>
    /\ lastOp = "start"
    /\ lastReq \in {[items |-> L, shape |-> "none"] : L \in ItemLists}
    /\ lastResp = None
    /\ prevValidate = NoValidate

NormCall(op, shape, result) ==
    /\ lastOp' = op
    /\ lastReq' = [lastReq EXCEPT !.shape = shape]
    /\ lastResp' = result
    /\ UNCHANGED <<indices, prevValidate>>

norm_codes(shape) ==
    /\ lastOp \in {"start", "_norm_codes"}
    /\ shape = "records" => \A i \in 1..Len(lastReq.items) : IsStr(lastReq.items[i])
    /\ NormCall("_norm_codes", shape, _norm_codes(Wrap(shape, lastReq.items)))

norm_valueset(shape) ==
    /\ lastOp = "start"
    /\ NormCall("_norm_valueset", shape, _norm_valueset(Wrap(shape, lastReq.items)))

norm_conceptmap(shape) ==
    /\ lastOp = "start"
    /\ NormCall("_norm_conceptmap", shape,
                _norm_conceptmap(Wrap(shape, lastReq.items)))

NextNorm ==
    \/ \E shape \in Shapes : norm_codes(shape)
    \/ \E shape \in Shapes \ {"records"} : norm_valueset(shape)
    \/ \E shape \in Shapes \ {"records"} : norm_conceptmap(shape)

SpecNorm == InitNorm /\ [][NextNorm]_vars

-----------------------------------------------------------------------------
(* The properties *)

\* the conditions the handlers reject a request with
EmptyQuery == RaiseHTTP(400, "Missing code")
MalformedBundle == RaiseHTTP(400, "resourceType must be 'Bundle'")

\* s is empty or holds whitespace only
IsBlank(s) == \A i \in 1..Len(s) : s[i] \in Whitespace

\* a and b are the same string but for the case of their letters
SameIgnoringCase(a, b) ==
    /\ Len(a) = Len(b)
    /\ \A i \in 1..Len(a) : LowerChar(a[i]) = LowerChar(b[i])

\* term occurs in hay as a substring, but for the case of the letters
ContainsIgnoringCase(hay, term) ==
    \E off \in 0..(Len(hay) - Len(term)) :
        \A j \in 1..Len(term) : LowerChar(hay[off + j]) = LowerChar(term[j])

\* the first n elements of xs, all of them when there are fewer
FirstN(xs, n) == [i \in 1..(IF Len(xs) < n THEN Len(xs) ELSE n) |-> xs[i]]

\* C1: summarize is rejected with MalformedBundle for every parsed bundle
\* value whose top-level resourceType is absent or is not exactly "Bundle",
\* and never for a bundle whose resourceType is exactly "Bundle".
C1_MalformedBundleIffNotBundle ==
    (lastOp = "bundle_summary" /\ lastReq # Unparseable) =>
        LET isBundle == /\ IsDict(lastReq)
                        /\ HasKey(lastReq, K_resourceType)
                        /\ Get(lastReq, K_resourceType) = JStr(S_Bundle)
        IN /\ ~isBundle => lastResp = MalformedBundle
           /\ isBundle => lastResp # MalformedBundle

\* C2: validate fails with EmptyQuery exactly when the code is empty or
\* whitespace only, and every non-blank code gets a result, not an error.
C2_EmptyQueryIffBlank ==
    lastOp = "validate_code" =>
        /\ lastResp = EmptyQuery <=> IsBlank(lastReq)
        /\ ~IsBlank(lastReq) => lastResp.err = "none"

\* a whitespace-only code was rejected
C2_Witness ==
    /\ lastOp = "validate_code"
    /\ lastReq # <<>>
    /\ IsBlank(lastReq)
    /\ lastResp = EmptyQuery

\* an entry whose code, display or some synonym contains the term
Mentions(c, term) ==
    \/ ContainsIgnoringCase(c.code, term)
    \/ ContainsIgnoringCase(c.display, term)
    \/ \E i \in 1..Len(c.synonyms) : ContainsIgnoringCase(c.synonyms[i], term)

\* C3: search returns, in load order, the entries whose code, display or
\* some synonym contains the trimmed term ignoring case, cut to the first
\* 200 of them; a blank term returns the empty sequence.
C3_SearchResult ==
    lastOp = "search_codes" =>
        LET term == Strip(lastReq)
            hits == SelectSeq(CODES, LAMBDA c : Mentions(c, term))
        IN /\ lastResp.err = "none"
           /\ Len(lastResp.out) <= 200
           /\ IsBlank(lastReq) => lastResp.out = <<>>
           /\ ~IsBlank(lastReq) => lastResp.out = FirstN(hits, 200)

\* a padded term that differs in case from what it matches filled the 200
C3_Witness ==
    /\ lastOp = "search_codes"
    /\ lastReq # Strip(lastReq)
    /\ Len(lastResp.out) = 200
    /\ Len(SelectSeq(CODES, LAMBDA c : Mentions(c, Strip(lastReq)))) > 200
    /\ \E i \in 1..Len(lastResp.out) :
          ~Contains(lastResp.out[i].code, Strip(lastReq))

\* the includes of the value set and the entries of the concept map
IncludesOf(valueset) == Get(valueset, K_includes).v
MappingsOf(conceptmap) == Get(conceptmap, K_mappings).v

\* what validate returns for a code, when q is the string it is looked up by
ValidateAnswer(resp, code, q) ==
    LET same == {i \in 1..Len(CODES) : SameIgnoringCase(CODES[i].code, q)}
        first == CHOOSE i \in same : \A j \in same : i <= j
    IN /\ resp.code = code
       /\ resp.exists <=> same # {}
       /\ same # {} => /\ resp.display = JStr(CODES[first].display)
                       /\ resp.system = JStr(CODES[first].system)
       /\ same = {} => resp.display = JNull /\ resp.system = JNull
       /\ resp.inValueSet <=>
             \E i \in 1..Len(IncludesOf(VALUESET)) :
                 SameIgnoringCase(IncludesOf(VALUESET)[i].v, q)
       /\ resp.mappings =
             SelectSeq(MappingsOf(CONCEPTMAP),
                       LAMBDA m : /\ Get(m, K_targetCode).v # <<>>
                                  /\ SameIgnoringCase(Get(m, K_targetCode).v, q))

\* C4 as stated: for every non-blank code, validate echoes the code and
\* answers exists, display, system, inValueSet and mappings for the entries
\* that equal the queried code ignoring case.
C4_AnswerForQueriedCode ==
    (lastOp = "validate_code" /\ ~IsBlank(lastReq)) =>
        /\ lastResp.err = "none"
        /\ ValidateAnswer(lastResp.out, lastReq, lastReq)

\* C4 amended: for every non-blank code, validate echoes the code as given
\* and answers exists, display, system, inValueSet and mappings for the
\* entries that equal the queried code, trimmed of the whitespace around it,
\* ignoring case.
C4_AnswerForTrimmedCode ==
    (lastOp = "validate_code" /\ ~IsBlank(lastReq)) =>
        /\ lastResp.err = "none"
        /\ ValidateAnswer(lastResp.out, lastReq, Strip(lastReq))

\* a padded code found under a code that differs in case, one of two such
\* entries, in the value set and the target of two mappings
C4_Witness ==
    /\ lastOp = "validate_code"
    /\ lastReq # Strip(lastReq)
    /\ lastResp.err = "none"
    /\ lastResp.out.exists
    /\ lastResp.out.inValueSet
    /\ Len(lastResp.out.mappings) = 2
    /\ Cardinality({i \in 1..Len(CODES) :
                      SameIgnoringCase(CODES[i].code, Strip(lastReq))}) = 2
    /\ lastResp.out.display \notin
          {JStr(CODES[i].display) : i \in {j \in 1..Len(CODES) :
                                            CODES[j].code = Strip(lastReq)}}

\* C5: every search, validate and summarize call, rejected or not, leaves
\* the code list, the value-set membership set and the reverse mapping
\* index unchanged, and a validate call returns what the first validate
\* call with the same code returned, whatever was called in between.
C5_IndicesReadOnly ==
    [][/\ CODES' = CODES
       /\ _VALUESET_INCLUDES_LOWER' = _VALUESET_INCLUDES_LOWER
       /\ _MAPS_BY_TARGET' = _MAPS_BY_TARGET
       /\ (lastOp' = "validate_code" /\ prevValidate.called
             /\ prevValidate.code = lastReq') =>
                lastResp' = prevValidate.resp]_vars

\* a code was validated, another handler ran, and the code was validated again
C5_Witness ==
    /\ lastOp = "validate_code"
    /\ prevValidate.again
    /\ prevValidate.code = lastReq
    /\ lastResp.err = "none"
    /\ lastResp.out.exists

\* C6: the normalizers never fail, whatever the shape of the raw value.
C6_NormalizersNeverFail ==
    lastOp \in {"_norm_codes", "_norm_valueset", "_norm_conceptmap"} =>
        lastResp.err = "none"

\* C7: every code entry normalizeCodes produces has a non-empty code.
C7_CodeNonEmpty ==
    (lastOp = "_norm_codes" /\ lastResp.err = "none") =>
        \A i \in 1..Len(lastResp.out) : lastResp.out[i].code # <<>>

\* C8: normalizeCodes gives the same code entries for the bare list, the
\* codes, data and items wrappers and the map of records that hold the same
\* elements, and for a list of strings and the list of the records
\* {code: s, display: s} of those strings.
C8_ShapeIndependent ==
    [][(/\ lastOp = "_norm_codes"
        /\ lastOp' = "_norm_codes"
        /\ lastReq.shape \in ContainerShapes \cup {"records"}
        /\ lastReq'.shape \in ContainerShapes \cup {"records"}) =>
            lastResp' = lastResp]_vars

\* a map of two records was normalized into two code entries
C8_Witness ==
    /\ lastOp = "_norm_codes"
    /\ lastReq.shape = "map"
    /\ Len(lastReq.items) = 2
    /\ lastResp.err = "none"
    /\ Len(lastResp.out) = 2
    /\ lastResp.out[1] # lastResp.out[2]

\* the entries of a bundle, the resource of an entry
EntriesOf(bundle) ==
    IF IsList(Get(bundle, K_entry)) THEN Get(bundle, K_entry).v ELSE <<>>
ResourceOf(e) == IF IsDict(e) THEN Get(e, K_resource) ELSE JNull

\* the resource is of the type and has a non-empty id
Identified(res, type) ==
    /\ IsDict(res)
    /\ Get(res, K_resourceType) = JStr(type)
    /\ Get(res, K_id) \notin {JNull, JStr(<<>>)}

\* "<type>/<id>" of the last entry of the type that has a non-empty id
LastRef(es, type) ==
    LET at == {i \in 1..Len(es) : Identified(ResourceOf(es[i]), type)}
        last == CHOOSE i \in at : \A j \in at : j <= i
    IN IF at = {} THEN JNull
       ELSE JStr(type \o <<"/">> \o Str(Get(ResourceOf(es[last]), K_id)))

\* C9: patientRef is "Patient/<id>" of the last entry whose resource is a
\* Patient with a non-empty id, null when there is none, and encounterRef
\* likewise for Encounter.
C9_LastWriteWins ==
    (lastOp = "bundle_summary" /\ lastResp.err = "none") =>
        /\ lastResp.out.patientRef = LastRef(EntriesOf(lastReq), S_Patient)
        /\ lastResp.out.encounterRef = LastRef(EntriesOf(lastReq), S_Encounter)

\* two patients and then a patient without an id: the second one is kept
C9_Witness ==
    /\ lastOp = "bundle_summary"
    /\ lastResp.err = "none"
    /\ EntriesOf(lastReq) = <<E_patient1, E_patient2, E_patient_noid>>
    /\ lastResp.out.patientRef = JStr(S_Patient \o <<"/", "p", "2">>)
    /\ lastResp.out.encounterRef = JNull

\* the {code, display, system} of the first coding, {} when there is none
FirstCodingTriplet(res) ==
    LET code == Get(res, K_code)
        coding == IF IsDict(code) THEN Get(code, K_coding) ELSE JNull
    IN IF IsList(coding) /\ coding.v # <<>>
       THEN JDict(<< <<K_code, Get(coding.v[1], K_code)>>,
                     <<K_display, Get(coding.v[1], K_display)>>,
                     <<K_system, Get(coding.v[1], K_system)>> >>)
       ELSE JDict(<<>>)

\* the resources of the type among the entries, in order
ResourcesOf(es, type) ==
    LET rs == [i \in 1..Len(es) |-> ResourceOf(es[i])]
    IN SelectSeq(rs, LAMBDA r : IsDict(r) /\ Get(r, K_resourceType) = JStr(type))

\* C10: every record in conditions or procedures is the {code, display,
\* system} triplet of the first coding of its resource, an empty record
\* when there is no coding.
C10_FirstCodingTriplet ==
    (lastOp = "bundle_summary" /\ lastResp.err = "none") =>
        LET cs == ResourcesOf(EntriesOf(lastReq), S_Condition)
            ps == ResourcesOf(EntriesOf(lastReq), S_Procedure)
        IN /\ lastResp.out.conditions =
                 [i \in 1..Len(cs) |-> FirstCodingTriplet(cs[i])]
           /\ lastResp.out.procedures =
                 [i \in 1..Len(ps) |-> FirstCodingTriplet(ps[i])]

=============================================================================
